---- MODULE Spec2Model ----
(***************************************************************************)
(* Retrieval engine of the VEFC chatbot (src/lib/kb/vectorstore.ts).       *)
(*                                                                         *)
(* The module state of vectorstore.ts (vectorStoreInstance,                *)
(* embeddingPipeline, useKeywordFallback), the cache file on disk and a    *)
(* set of callers, each one invocation of queryVectorStore or              *)
(* createVectorStore.  The functions are async: a caller runs atomically   *)
(* from one await to the next, and callers interleave at the awaits.  An   *)
(* await after which the caller touches only its own locals before the     *)
(* next await is folded into the following step (the return of             *)
(* generateEmbeddings, addDocuments); the two awaits of the model          *)
(* acquisition are one step, since the module state changes only when the  *)
(* second resolves or either rejects.                                      *)
(***************************************************************************)
EXTENDS Integers, Sequences, FiniteSets, TLC

\* Number of invocations in flight in one process.
NumCallers == 2
\* Largest number of chunks the text splitter yields for one build.
MaxChunks == 3

Callers == 1..NumCallers

VARIABLES
    vectorStoreInstance,   \* module singleton (line 117); id 0 is null
    embeddingPipeline,     \* module variable (line 120); FALSE is null
    useKeywordFallback,    \* module flag (line 123)
    cacheFile,             \* content of CACHE_PATH (line 14)
    pc,                    \* per caller: position in its async function
    op,                    \* per caller: "none", "query" or "build"
    store,                 \* per caller: local `store`
    texts,                 \* per caller: argument of generateEmbeddings
    chunks,                \* per caller: local `splitDocs` of a build
    pipe,                  \* per caller: local `pipe` in generateEmbeddings
    embs,                  \* per caller: embeddings collected / returned
    result,                \* per caller: settled value of the promise
    k,                     \* per caller: argument k of queryVectorStore
    log,                   \* per caller: the stages of createVectorStore it has performed
    acquisitions           \* number of model acquisitions started

vars == <<vectorStoreInstance, embeddingPipeline, useKeywordFallback, cacheFile,
          pc, op, store, texts, chunks, pipe, embs, result, k, log, acquisitions>>

shared == <<vectorStoreInstance, embeddingPipeline, useKeywordFallback, cacheFile>>

\* Everything but the cache file: the state of this process.
inProcess == <<vectorStoreInstance, embeddingPipeline, useKeywordFallback,
               pc, op, store, texts, chunks, pipe, embs, result, k, log, acquisitions>>

-----------------------------------------------------------------------------
\* Values

\* `null` for a SimpleVectorStore reference.
NoStore == [id |-> 0, entries |-> <<>>]

\* `null` returned by generateEmbeddings.
NullEmb == [null |-> TRUE, vecs |-> <<>>]

Vecs(v) == [null |-> FALSE, vecs |-> v]

\* Error thrown by getVectorStore.
NotInitialized == "Vector store not initialized. Please run 'pnpm seed-kb' first to index the knowledge base."

\* Error thrown by createVectorStore when generateEmbeddings returns null.
EmbedFailed == "Failed to generate embeddings. Cannot create vector store."

\* An exception of the cache load, were it to leave loadFromCache.
LoadThrew == "cache load threw"

\* Rejection of the embedding pipeline call, propagated unchanged.
PipeThrew == "pipe(text) rejected"

Pending == [kind |-> "pending", what |-> "", id |-> 0]

Err(m) == [kind |-> "error", what |-> m, id |-> 0]

Docs(path, id) == [kind |-> "docs", what |-> path, id |-> id]

Built(id) == [kind |-> "store", what |-> "", id |-> id]

\* Chunk texts of the knowledge base.
KBTexts == <<"the SVP level is 7", "physical demands include lifting", "SVP level">>

\* Vectors the feature-extraction pipeline yields for the chunk texts (scaled by 10).
KBVectors == <<(<<10, 0>>), (<<0, 10>>), (<<7, 7>>)>>

Slot(i) == ((i - 1) % Len(KBTexts)) + 1

\* The pipeline call of line 161-162: one vector per text.
EmbedOf(t) == KBVectors[CHOOSE i \in 1..Len(KBTexts) : KBTexts[i] = t]

\* The text splitter's output for a corpus of n chunks.
splitDocuments(n) ==
    [i \in 1..n |-> [pageContent |-> KBTexts[Slot(i)],
                     metadata |-> [source |-> "kb", chunk |-> i]]]

\* SimpleVectorStore.addDocuments on a fresh store.
addDocuments(docs, embeddings) ==
    [i \in 1..Len(docs) |-> [content |-> docs[i].pageContent,
                             embedding |-> embeddings[i],
                             metadata |-> docs[i].metadata]]

\* The number NaN, which an embedding component (a JavaScript number) can be.
NaN == 1000001

\* The JSON value null.
JSONNull == 1000002

\* Content of the cache file: no file, a file that cannot be read, a file
\* that is not JSON, JSON without an `entries` array, or the JSON of a cache
\* record, held as the value JSON.parse yields for it.
Absent == [kind |-> "absent", entries |-> <<>>]

Unreadable == [kind |-> "unreadable", entries |-> <<>>]

Garbage == [kind |-> "garbage", entries |-> <<>>]

NoEntries == [kind |-> "noentries", entries |-> <<>>]

\* JSON.stringify of a number: NaN has no JSON form and is written as null.
JSONNumber(x) == IF x = NaN THEN JSONNull ELSE x

\* JSON.stringify of the cache record of a store's entries.
JSONStringify(entries) ==
    [kind |-> "json",
     entries |-> [i \in 1..Len(entries) |->
                    [content |-> entries[i].content,
                     embedding |-> [j \in 1..Len(entries[i].embedding) |->
                                      JSONNumber(entries[i].embedding[j])],
                     metadata |-> entries[i].metadata]]]

\* The value thrown out of a function, where a store is expected.
Thrown == [id |-> -1, entries |-> <<>>]

\* The try block of loadFromCache: null without a file, a new store with the
\* parsed entries, or an exception (readFileSync, JSON.parse, or reading
\* `length` of a missing `entries`).
loadFromCacheTry(file, id) ==
    IF file.kind = "absent" THEN NoStore
    ELSE IF file.kind = "json" THEN [id |-> id, entries |-> file.entries]
    ELSE Thrown

\* Variant of loadFromCache: no catch block.
loadFromCacheNoCatch(file, id) == loadFromCacheTry(file, id)

\* loadFromCache: the catch block turns every exception into null.
loadFromCache(file, id) ==
    IF loadFromCacheTry(file, id) = Thrown THEN NoStore ELSE loadFromCacheTry(file, id)

\* Variant of getVectorStore: an empty store instead of the error.
getVectorStoreEmpty(p) ==
    IF vectorStoreInstance.id # 0
    THEN vectorStoreInstance
    ELSE IF loadFromCache(cacheFile, p).id # 0
    THEN loadFromCache(cacheFile, p)
    ELSE [id |-> p, entries |-> <<>>]

\* Variant of getVectorStore: a loadable cache file is preferred to the installed store.
getVectorStoreReloads(p) ==
    IF loadFromCache(cacheFile, p).id # 0
    THEN loadFromCache(cacheFile, p)
    ELSE vectorStoreInstance

\* Variant of getVectorStore: a failed cache load is remembered and not retried.
getVectorStoreSticky(p) ==
    IF vectorStoreInstance.id # 0
    THEN vectorStoreInstance
    ELSE IF \E q \in Callers : result[q] = Err(NotInitialized)
    THEN NoStore
    ELSE loadFromCache(cacheFile, p)

\* getVectorStore called by caller p: the store it resolves to, or null when it throws.
getVectorStore(p) ==
    IF vectorStoreInstance.id # 0
    THEN vectorStoreInstance
    ELSE loadFromCache(cacheFile, p)

\* Text of the query.
QueryText == KBTexts[3]

\* Default of the argument k of queryVectorStore.
DefaultK == 5

\* The cache file the seeding script writes: the whole knowledge base.
SeededCache ==
    LET docs == splitDocuments(MaxChunks)
    IN JSONStringify(addDocuments(docs, [i \in 1..MaxChunks |-> EmbedOf(docs[i].pageContent)]))

-----------------------------------------------------------------------------
\* Initial state: the module has just been loaded.

\* The callers have not started.
CallersInit ==
    /\ pc = [p \in Callers |-> "idle"]
    /\ op = [p \in Callers |-> "none"]
    /\ store = [p \in Callers |-> NoStore]
    /\ texts = [p \in Callers |-> <<>>]
    /\ chunks = [p \in Callers |-> <<>>]
    /\ pipe = [p \in Callers |-> "none"]
    /\ embs = [p \in Callers |-> Vecs(<<>>)]
    /\ result = [p \in Callers |-> Pending]
    /\ k = [p \in Callers |-> DefaultK]
    /\ log = [p \in Callers |-> <<>>]

Init ==
    /\ vectorStoreInstance = NoStore
    /\ embeddingPipeline = FALSE
    /\ useKeywordFallback = FALSE
    /\ acquisitions = 0
    /\ cacheFile \in {Absent, Garbage}
    /\ CallersInit

-----------------------------------------------------------------------------
\* Actions.  When a caller returns, its locals that are dead from then on
\* (texts, chunks, and the embeddings of a build) are cleared.

\* queryVectorStore, up to its first await: getVectorStore.
QueryStart(p) ==
    /\ pc[p] = "idle"
    /\ op' = [op EXCEPT ![p] = "query"]
    /\ LET s == getVectorStore(p) IN
         IF s.id > 0
         THEN /\ vectorStoreInstance' = s
              /\ store' = [store EXCEPT ![p] = s]
              /\ texts' = [texts EXCEPT ![p] = <<QueryText>>]
              /\ pc' = [pc EXCEPT ![p] = "embed"]
              /\ UNCHANGED result
         ELSE /\ result' = [result EXCEPT ![p] =
                              IF s = Thrown THEN Err(LoadThrew) ELSE Err(NotInitialized)]
              /\ pc' = [pc EXCEPT ![p] = "done"]
              /\ UNCHANGED <<vectorStoreInstance, store, texts>>
    /\ UNCHANGED <<embeddingPipeline, useKeywordFallback, cacheFile, chunks, pipe,
                   embs, log, acquisitions, k>>

\* Variant of BuildStart: the cache is written before the embeddings exist.
BuildStartSavesFirst(p, n) ==
    /\ pc[p] = "idle"
    /\ op' = [op EXCEPT ![p] = "build"]
    /\ chunks' = [chunks EXCEPT ![p] = splitDocuments(n)]
    /\ texts' = [texts EXCEPT ![p] = [i \in 1..n |-> splitDocuments(n)[i].pageContent]]
    /\ log' = [log EXCEPT ![p] = <<"chunk", "save">>]
    /\ cacheFile' = JSONStringify(addDocuments(splitDocuments(n), [i \in 1..n |-> <<>>]))
    /\ pc' = [pc EXCEPT ![p] = "embed"]
    /\ UNCHANGED <<vectorStoreInstance, embeddingPipeline, useKeywordFallback, store,
                   pipe, embs, result, acquisitions, k>>

\* Variant of BuildStart: the new, still empty store is installed at once.
BuildStartInstallsEmpty(p, n) ==
    /\ pc[p] = "idle"
    /\ op' = [op EXCEPT ![p] = "build"]
    /\ chunks' = [chunks EXCEPT ![p] = splitDocuments(n)]
    /\ texts' = [texts EXCEPT ![p] = [i \in 1..n |-> splitDocuments(n)[i].pageContent]]
    /\ log' = [log EXCEPT ![p] = <<"chunk">>]
    /\ vectorStoreInstance' = [id |-> p, entries |-> <<>>]
    /\ pc' = [pc EXCEPT ![p] = "embed"]
    /\ UNCHANGED <<embeddingPipeline, useKeywordFallback, cacheFile, store, pipe, embs,
                   result, acquisitions, k>>

\* createVectorStore, up to its first await: the text splitter yields n chunks.
BuildStart(p, n) ==
    /\ pc[p] = "idle"
    /\ op' = [op EXCEPT ![p] = "build"]
    /\ chunks' = [chunks EXCEPT ![p] = splitDocuments(n)]
    /\ texts' = [texts EXCEPT ![p] = [i \in 1..n |-> splitDocuments(n)[i].pageContent]]
    /\ log' = [log EXCEPT ![p] = <<"chunk">>]
    /\ pc' = [pc EXCEPT ![p] = "embed"]
    /\ UNCHANGED <<shared, store, pipe, embs, result, acquisitions, k>>

\* Variant of getEmbeddingPipeline: the degraded flag is not consulted.
GetEmbeddingPipelineRetries(p) ==
    /\ pc[p] = "embed"
    /\ IF ~embeddingPipeline
       THEN /\ pc' = [pc EXCEPT ![p] = "acquiring"]
            /\ acquisitions' = acquisitions + 1
            /\ UNCHANGED pipe
       ELSE /\ pipe' = [pipe EXCEPT ![p] = "pipe"]
            /\ pc' = [pc EXCEPT ![p] = "gen"]
            /\ UNCHANGED acquisitions
    /\ UNCHANGED <<shared, op, store, texts, chunks, embs, result, log, k>>

\* getEmbeddingPipeline, up to its first await.
GetEmbeddingPipeline(p) ==
    /\ pc[p] = "embed"
    /\ IF useKeywordFallback
       THEN /\ pipe' = [pipe EXCEPT ![p] = "null"]
            /\ pc' = [pc EXCEPT ![p] = "gen"]
            /\ UNCHANGED acquisitions
       ELSE IF ~embeddingPipeline
       THEN /\ pc' = [pc EXCEPT ![p] = "acquiring"]
            /\ acquisitions' = acquisitions + 1
            /\ UNCHANGED pipe
       ELSE /\ pipe' = [pipe EXCEPT ![p] = "pipe"]
            /\ pc' = [pc EXCEPT ![p] = "gen"]
            /\ UNCHANGED acquisitions
    /\ UNCHANGED <<shared, op, store, texts, chunks, embs, result, log, k>>

\* The import and the pipeline construction resolve.
AcquireSucceed(p) ==
    /\ pc[p] = "acquiring"
    /\ embeddingPipeline' = TRUE
    /\ pipe' = [pipe EXCEPT ![p] = "pipe"]
    /\ pc' = [pc EXCEPT ![p] = "gen"]
    /\ UNCHANGED <<vectorStoreInstance, useKeywordFallback, cacheFile, op, store, texts,
                   chunks, embs, result, log, acquisitions, k>>

\* The import or the pipeline construction rejects: the catch block.
AcquireFail(p) ==
    /\ pc[p] = "acquiring"
    /\ useKeywordFallback' = TRUE
    /\ pipe' = [pipe EXCEPT ![p] = "null"]
    /\ pc' = [pc EXCEPT ![p] = "gen"]
    /\ UNCHANGED <<vectorStoreInstance, embeddingPipeline, cacheFile, op, store, texts,
                   chunks, embs, result, log, acquisitions, k>>

\* Variant of EmbedText: a build adds each entry to the installed store as
\* soon as its embedding exists.
EmbedTextInstalls(p) ==
    /\ pc[p] = "gen"
    /\ pipe[p] = "pipe"
    /\ Len(embs[p].vecs) < Len(texts[p])
    /\ embs' = [embs EXCEPT ![p] =
                  Vecs(Append(embs[p].vecs, EmbedOf(texts[p][Len(embs[p].vecs) + 1])))]
    /\ vectorStoreInstance' =
         IF op[p] = "build"
         THEN [id |-> p,
               entries |-> addDocuments(SubSeq(chunks[p], 1, Len(embs[p].vecs) + 1),
                                        embs'[p].vecs)]
         ELSE vectorStoreInstance
    /\ UNCHANGED <<embeddingPipeline, useKeywordFallback, cacheFile, pc, op, store,
                   texts, chunks, pipe, result, log, acquisitions, k>>

\* generateEmbeddings: one iteration of the loop, the pipeline call resolves.
EmbedText(p) ==
    /\ pc[p] = "gen"
    /\ pipe[p] = "pipe"
    /\ Len(embs[p].vecs) < Len(texts[p])
    /\ embs' = [embs EXCEPT ![p] =
                  Vecs(Append(embs[p].vecs, EmbedOf(texts[p][Len(embs[p].vecs) + 1])))]
    /\ UNCHANGED <<shared, pc, op, store, texts, chunks, pipe, result, log, acquisitions,
                   k>>

\* generateEmbeddings: one iteration of the loop, the pipeline call rejects.
\* Nothing catches it in generateEmbeddings, queryVectorStore or createVectorStore.
EmbedThrow(p) ==
    /\ pc[p] = "gen"
    /\ pipe[p] = "pipe"
    /\ Len(embs[p].vecs) < Len(texts[p])
    /\ result' = [result EXCEPT ![p] = Err(PipeThrew)]
    /\ pc' = [pc EXCEPT ![p] = "done"]
    /\ UNCHANGED <<shared, op, store, texts, chunks, pipe, embs, log, acquisitions, k>>

\* What generateEmbeddings returns to caller p once it has a pipeline or none:
\* null without a pipeline, else the embeddings of all texts.
generateEmbeddings(p) == IF pipe[p] = "null" THEN NullEmb ELSE embs[p]

\* generateEmbeddings has run to its return statement.
Generated(p) ==
    /\ pc[p] = "gen"
    /\ \/ pipe[p] = "null"
       \/ pipe[p] = "pipe" /\ Len(embs[p].vecs) = Len(texts[p])

\* Variant of SearchPath: the search is chosen by the module flag.
SearchPathByFlag(queryEmbedding) ==
    IF useKeywordFallback THEN "keyword" ELSE "similarity"

\* The search queryVectorStore delegates to for the embeddings it got.
SearchPath(queryEmbedding) ==
    IF ~queryEmbedding.null /\ Len(queryEmbedding.vecs) >= 1
    THEN "similarity"
    ELSE "keyword"

\* queryVectorStore after generateEmbeddings: search the store.
QueryFinish(p) ==
    /\ op[p] = "query"
    /\ Generated(p)
    /\ embs' = [embs EXCEPT ![p] = generateEmbeddings(p)]
    /\ result' = [result EXCEPT ![p] = Docs(SearchPath(generateEmbeddings(p)), store[p].id)]
    /\ pc' = [pc EXCEPT ![p] = "done"]
    /\ texts' = [texts EXCEPT ![p] = <<>>]
    /\ UNCHANGED <<shared, op, store, chunks, pipe, log, acquisitions, k>>

\* createVectorStore after generateEmbeddings returned null: throw.
BuildAbort(p) ==
    /\ op[p] = "build"
    /\ Generated(p)
    /\ generateEmbeddings(p).null
    /\ result' = [result EXCEPT ![p] = Err(EmbedFailed)]
    /\ pc' = [pc EXCEPT ![p] = "done"]
    /\ texts' = [texts EXCEPT ![p] = <<>>]
    /\ chunks' = [chunks EXCEPT ![p] = <<>>]
    /\ UNCHANGED <<shared, op, store, pipe, embs, log, acquisitions, k>>

\* Variant of BuildFinish: a failing cache write is not caught.
BuildFinishRethrows(p, writeOk) ==
    /\ op[p] = "build"
    /\ Generated(p)
    /\ ~generateEmbeddings(p).null
    /\ LET built == [id |-> p,
                     entries |-> addDocuments(chunks[p], generateEmbeddings(p).vecs)]
       IN /\ store' = [store EXCEPT ![p] = built]
          /\ cacheFile' = IF writeOk THEN JSONStringify(built.entries) ELSE cacheFile
          /\ vectorStoreInstance' = IF writeOk THEN built ELSE vectorStoreInstance
          /\ result' = [result EXCEPT ![p] =
                          IF writeOk THEN Built(built.id) ELSE Err("write failed")]
    /\ log' = [log EXCEPT ![p] =
                 log[p] \o (IF writeOk THEN <<"embed", "index", "save", "install">>
                                       ELSE <<"embed", "index", "savefail">>)]
    /\ pc' = [pc EXCEPT ![p] = "done"]
    /\ texts' = [texts EXCEPT ![p] = <<>>]
    /\ chunks' = [chunks EXCEPT ![p] = <<>>]
    /\ embs' = [embs EXCEPT ![p] = Vecs(<<>>)]
    /\ UNCHANGED <<embeddingPipeline, useKeywordFallback, op, pipe, acquisitions, k>>

\* Variant of BuildFinish: an index that is already installed is kept.
BuildFinishFirstWins(p, writeOk) ==
    /\ op[p] = "build"
    /\ Generated(p)
    /\ ~generateEmbeddings(p).null
    /\ LET built == [id |-> p,
                     entries |-> addDocuments(chunks[p], generateEmbeddings(p).vecs)]
       IN /\ store' = [store EXCEPT ![p] = built]
          /\ cacheFile' = IF writeOk THEN JSONStringify(built.entries) ELSE cacheFile
          /\ vectorStoreInstance' = IF vectorStoreInstance.id # 0 THEN vectorStoreInstance
                                                                 ELSE built
          /\ result' = [result EXCEPT ![p] = Built(built.id)]
    /\ log' = [log EXCEPT ![p] =
                 log[p] \o <<"embed", "index", IF writeOk THEN "save" ELSE "savefail",
                             "install">>]
    /\ pc' = [pc EXCEPT ![p] = "done"]
    /\ texts' = [texts EXCEPT ![p] = <<>>]
    /\ chunks' = [chunks EXCEPT ![p] = <<>>]
    /\ embs' = [embs EXCEPT ![p] = Vecs(<<>>)]
    /\ UNCHANGED <<embeddingPipeline, useKeywordFallback, op, pipe, acquisitions, k>>

\* Variant of BuildFinish: the cache record is taken from the installed store.
BuildFinishSavesInstalled(p, writeOk) ==
    /\ op[p] = "build"
    /\ Generated(p)
    /\ ~generateEmbeddings(p).null
    /\ LET built == [id |-> p,
                     entries |-> addDocuments(chunks[p], generateEmbeddings(p).vecs)]
       IN /\ store' = [store EXCEPT ![p] = built]
          /\ cacheFile' = IF writeOk THEN JSONStringify(vectorStoreInstance.entries)
                                     ELSE cacheFile
          /\ vectorStoreInstance' = built
          /\ result' = [result EXCEPT ![p] = Built(built.id)]
    /\ log' = [log EXCEPT ![p] =
                 log[p] \o <<"embed", "index", IF writeOk THEN "save" ELSE "savefail",
                             "install">>]
    /\ pc' = [pc EXCEPT ![p] = "done"]
    /\ texts' = [texts EXCEPT ![p] = <<>>]
    /\ chunks' = [chunks EXCEPT ![p] = <<>>]
    /\ embs' = [embs EXCEPT ![p] = Vecs(<<>>)]
    /\ UNCHANGED <<embeddingPipeline, useKeywordFallback, op, pipe, acquisitions, k>>

\* createVectorStore after generateEmbeddings returned the embeddings:
\* populate a new store, write the cache (a failing write is caught),
\* install the store and return it.
BuildFinish(p, writeOk) ==
    /\ op[p] = "build"
    /\ Generated(p)
    /\ ~generateEmbeddings(p).null
    /\ LET built == [id |-> p,
                     entries |-> addDocuments(chunks[p], generateEmbeddings(p).vecs)]
       IN /\ store' = [store EXCEPT ![p] = built]
          /\ cacheFile' = IF writeOk THEN JSONStringify(built.entries) ELSE cacheFile
          /\ vectorStoreInstance' = built
          /\ result' = [result EXCEPT ![p] = Built(built.id)]
    /\ log' = [log EXCEPT ![p] =
                 log[p] \o <<"embed", "index", IF writeOk THEN "save" ELSE "savefail",
                             "install">>]
    /\ pc' = [pc EXCEPT ![p] = "done"]
    /\ texts' = [texts EXCEPT ![p] = <<>>]
    /\ chunks' = [chunks EXCEPT ![p] = <<>>]
    /\ embs' = [embs EXCEPT ![p] = Vecs(<<>>)]
    /\ UNCHANGED <<embeddingPipeline, useKeywordFallback, op, pipe, acquisitions, k>>

\* The seeding script, run as another process, writes the cache file.
SeedWrite ==
    /\ cacheFile # SeededCache
    /\ cacheFile' = SeededCache
    /\ UNCHANGED inProcess

Next ==
    \/ \E p \in Callers : QueryStart(p)
    \/ \E p \in Callers, n \in 0..MaxChunks : BuildStart(p, n)
    \/ \E p \in Callers : GetEmbeddingPipeline(p)
    \/ \E p \in Callers : AcquireSucceed(p)
    \/ \E p \in Callers : AcquireFail(p)
    \/ \E p \in Callers : EmbedText(p)
    \/ \E p \in Callers : EmbedThrow(p)
    \/ \E p \in Callers : QueryFinish(p)
    \/ \E p \in Callers : BuildAbort(p)
    \/ \E p \in Callers, writeOk \in BOOLEAN : BuildFinish(p, writeOk)
    \/ SeedWrite

Spec == Init /\ [][Next]_vars

-----------------------------------------------------------------------------
\* Queries of a process that starts on a cache file of any content.

\* Longest entry sequence of a cache file at the start.
MaxCached == 2

\* Embeddings found in a cache file: a regular one, one with a NaN component,
\* one of another dimensionality.
CachedVectors == {<<10, 0>>, <<NaN, 0>>, <<0, 10, 0>>}

CachedEntries ==
    {[content |-> KBTexts[1], embedding |-> v, metadata |-> [source |-> "kb", chunk |-> 1]] :
        v \in CachedVectors}

\* Entry sequences a store can hold when its cache record is written.
SavedIndexes == UNION {[1..n -> CachedEntries] : n \in 0..MaxCached}

CacheFiles ==
    {Absent, Unreadable, Garbage, NoEntries} \cup {JSONStringify(idx) : idx \in SavedIndexes}

LoadInit ==
    /\ vectorStoreInstance = NoStore
    /\ embeddingPipeline = FALSE
    /\ useKeywordFallback = FALSE
    /\ acquisitions = 0
    /\ cacheFile \in CacheFiles
    /\ CallersInit

LoadNext ==
    \/ \E p \in Callers : QueryStart(p)
    \/ \E p \in Callers : GetEmbeddingPipeline(p)
    \/ \E p \in Callers : AcquireSucceed(p)
    \/ \E p \in Callers : AcquireFail(p)
    \/ \E p \in Callers : EmbedText(p)
    \/ \E p \in Callers : EmbedThrow(p)
    \/ \E p \in Callers : QueryFinish(p)

LoadSpec == LoadInit /\ [][LoadNext]_vars

-----------------------------------------------------------------------------
\* The two searches of SimpleVectorStore and the queries that run them.

\* Largest magnitude of the argument k of a query.
MaxK == 2

\* Bonus of keywordSearch for an exact phrase match.
PhraseBonus == 10

\* Texts of the queries, beside KBTexts[3].
ShortQuery == "is 7"

OneTermQuery == "lifting"

\* The characters of a string.
Chars(t) ==
    CASE t = KBTexts[1] -> <<"t", "h", "e", " ", "S", "V", "P", " ", "l", "e", "v", "e", "l", " ", "i", "s", " ", "7">>
      [] t = KBTexts[2] -> <<"p", "h", "y", "s", "i", "c", "a", "l", " ", "d", "e", "m", "a", "n", "d", "s", " ", "i", "n", "c", "l", "u", "d", "e", " ", "l", "i", "f", "t", "i", "n", "g">>
      [] t = KBTexts[3] -> <<"S", "V", "P", " ", "l", "e", "v", "e", "l">>
      [] t = ShortQuery -> <<"i", "s", " ", "7">>
      [] t = OneTermQuery -> <<"l", "i", "f", "t", "i", "n", "g">>

UpperCase == <<"A", "B", "C", "D", "E", "F", "G", "H", "I", "J", "K", "L", "M", "N", "O", "P", "Q", "R", "S", "T", "U", "V", "W", "X", "Y", "Z">>

LowerCase == <<"a", "b", "c", "d", "e", "f", "g", "h", "i", "j", "k", "l", "m", "n", "o", "p", "q", "r", "s", "t", "u", "v", "w", "x", "y", "z">>

\* String.prototype.toLowerCase.
toLowerCase(s) ==
    [i \in 1..Len(s) |->
        IF \E j \in 1..Len(UpperCase) : UpperCase[j] = s[i]
        THEN LowerCase[CHOOSE j \in 1..Len(UpperCase) : UpperCase[j] = s[i]]
        ELSE s[i]]

\* The character class \s.
IsSpace(c) == c \in {" ", "\t", "\n", "\r"}

RECURSIVE SkipSpaces(_)
SkipSpaces(s) ==
    IF s # <<>> /\ IsSpace(Head(s)) THEN SkipSpaces(Tail(s)) ELSE s

\* s.split(/\s+/), cur being the piece under construction.
RECURSIVE split(_, _)
split(s, cur) ==
    IF s = <<>> THEN <<cur>>
    ELSE IF IsSpace(Head(s)) THEN <<cur>> \o split(SkipSpaces(s), <<>>)
    ELSE split(Tail(s), Append(cur, Head(s)))

\* queryTerms of keywordSearch.
queryTerms(query) ==
    SelectSeq(split(toLowerCase(query), <<>>), LAMBDA t : Len(t) > 2)

\* content.split(term).length - 1 for a non-empty term: the occurrences of
\* term in content, found from left to right without overlap.
RECURSIVE matches(_, _)
matches(content, term) ==
    IF Len(content) < Len(term) THEN 0
    ELSE IF SubSeq(content, 1, Len(term)) = term
         THEN 1 + matches(SubSeq(content, Len(term) + 1, Len(content)), term)
         ELSE matches(Tail(content), term)

\* String.prototype.includes.
includes(content, q) ==
    \E i \in 0..(Len(content) - Len(q)) : SubSeq(content, i + 1, i + Len(q)) = q

\* Sum of the occurrence counts of the terms in content.
RECURSIVE TermMatches(_, _)
TermMatches(content, terms) ==
    IF terms = <<>> THEN 0
    ELSE matches(content, Head(terms)) + TermMatches(content, Tail(terms))

\* The loop of keywordSearch over the query terms, from `score`.
RECURSIVE keywordLoop(_, _, _, _)
keywordLoop(content, query, terms, score) ==
    IF terms = <<>> THEN score
    ELSE keywordLoop(content, query, Tail(terms),
                     score + matches(content, Head(terms))
                           + (IF includes(content, toLowerCase(query)) THEN PhraseBonus ELSE 0))

\* The score keywordSearch gives an entry.
keywordScore(entry, query) ==
    keywordLoop(toLowerCase(Chars(entry.content)), Chars(query), queryTerms(Chars(query)), 0)

\* cosineSimilarity, kept exact: the dot product and the two squared norms.
RECURSIVE cosineLoop(_, _, _, _)
cosineLoop(a, b, i, acc) ==
    IF i > Len(a) THEN acc
    ELSE cosineLoop(a, b, i + 1, [dotProduct |-> acc.dotProduct + a[i] * b[i],
                                  normA |-> acc.normA + a[i] * a[i],
                                  normB |-> acc.normB + b[i] * b[i]])

cosineSimilarity(a, b) == cosineLoop(a, b, 1, [dotProduct |-> 0, normA |-> 0, normB |-> 0])

\* dotProduct / (sqrt(normA) * sqrt(normB)) is NaN when a norm is zero.
IsNaN(s) == s.normA * s.normB = 0

\* s > t for two cosine scores; a comparison with NaN is false.
CosineAbove(s, t) ==
    LET sq(x) == x.dotProduct * x.dotProduct
    IN /\ ~IsNaN(s)
       /\ ~IsNaN(t)
       /\ IF s.dotProduct >= 0
          THEN t.dotProduct < 0
               \/ sq(s) * t.normA * t.normB > sq(t) * s.normA * s.normB
          ELSE t.dotProduct < 0
               /\ sq(s) * t.normA * t.normB < sq(t) * s.normA * s.normB

NumberAbove(s, t) == s > t

\* Variant of sort: items of equal score come out in reverse insertion order.
sortUnstable(scored, above) ==
    LET n == Len(scored)
        before(j, i) == above[j][i] \/ (~above[i][j] /\ j > i)
        rank(i) == 1 + Cardinality({j \in 1..n : before(j, i)})
    IN [r \in 1..n |-> scored[CHOOSE i \in 1..n : rank(i) = r]]

\* scored.sort((a, b) => b.score - a.score): descending and stable,
\* above[j][i] telling whether the score of item j is above that of item i.
\* A difference that is NaN counts as 0: the two items compare equal.
sort(scored, above) ==
    LET n == Len(scored)
        before(j, i) == above[j][i] \/ (~above[i][j] /\ j < i)
        rank(i) == 1 + Cardinality({j \in 1..n : before(j, i)})
    IN [r \in 1..n |-> scored[CHOOSE i \in 1..n : rank(i) = r]]

\* Array.prototype.slice(0, k): a negative k counts from the end.
slice(seq, topK) ==
    LET n == Len(seq)
        end == IF topK < 0 THEN (IF n + topK > 0 THEN n + topK ELSE 0)
                        ELSE (IF topK < n THEN topK ELSE n)
    IN SubSeq(seq, 1, end)

\* Variant of ToDocument: the score is handed out with the chunk.
ToDocumentWithScore(item) ==
    [pageContent |-> item.entry.content, metadata |-> item.entry.metadata,
     score |-> item.score]

\* new Document({pageContent: item.entry.content, metadata: item.entry.metadata}).
ToDocument(item) ==
    [pageContent |-> item.entry.content, metadata |-> item.entry.metadata]

\* `scored` of similaritySearch after the sort.
similarityScored(entries, queryEmbedding) ==
    LET scored == [i \in 1..Len(entries) |->
                     [entry |-> entries[i],
                      score |-> cosineSimilarity(queryEmbedding, entries[i].embedding)]]
    IN sort(scored, [j \in 1..Len(scored) |-> [i \in 1..Len(scored) |->
                        CosineAbove(scored[j].score, scored[i].score)]])

\* SimpleVectorStore.similaritySearch.
similaritySearch(entries, queryEmbedding, topK) ==
    LET top == slice(similarityScored(entries, queryEmbedding), topK)
    IN [i \in 1..Len(top) |-> ToDocument(top[i])]

\* `scored` of keywordSearch after the sort.
keywordScored(entries, query) ==
    LET scored == [i \in 1..Len(entries) |->
                     [entry |-> entries[i], score |-> keywordScore(entries[i], query)]]
    IN sort(scored, [j \in 1..Len(scored) |-> [i \in 1..Len(scored) |->
                        NumberAbove(scored[j].score, scored[i].score)]])

\* Variant of keywordSearch: entries without a match are not discarded.
keywordSearchKeepsAll(entries, query, topK) ==
    LET top == slice(keywordScored(entries, query), topK)
    IN [i \in 1..Len(top) |-> ToDocument(top[i])]

\* SimpleVectorStore.keywordSearch.
keywordSearch(entries, query, topK) ==
    LET top == slice(SelectSeq(keywordScored(entries, query), LAMBDA item : item.score > 0), topK)
    IN [i \in 1..Len(top) |-> ToDocument(top[i])]

\* What a query returns: the documents, with the path taken and the sorted
\* `scored` array they were cut from.
Found(path, id, scored, docs) ==
    [kind |-> "docs", what |-> path, id |-> id, scored |-> scored, docs |-> docs]

\* The values of k the callers pass.
Ks == ((0 - MaxK)..MaxK) \cup {DefaultK}

\* The documents a store is built from: n chunks of the knowledge base,
\* starting at chunk r + 1.
KBDocuments(n, r) ==
    [i \in 1..n |-> [pageContent |-> KBTexts[Slot(i + r)],
                     metadata |-> [source |-> "kb", chunk |-> i]]]

\* An index installed earlier in the process by a build of n chunks.
IndexOf(n, r) ==
    [id |-> 1,
     entries |-> addDocuments(KBDocuments(n, r), [i \in 1..n |-> KBVectors[Slot(i + r)]])]

\* An embedding of zero norm.
ZeroVector == <<0, 0>>

\* An installed index of two entries, the first with an embedding of zero norm.
DegenerateIndex(r) ==
    [id |-> 1,
     entries |-> addDocuments(KBDocuments(2, r), <<ZeroVector, KBVectors[Slot(2 + r)]>>)]

\* The indexes the queries run on.
Indexes ==
    {IndexOf(n, r) : n \in 0..MaxChunks, r \in 0..(Len(KBTexts) - 1)}
        \cup {DegenerateIndex(r) : r \in 0..(Len(KBTexts) - 1)}

\* The queries: the text and the embedding the pipeline yields for it.
Queries ==
    {[text |-> KBTexts[3], embedding |-> KBVectors[3]],
     [text |-> ShortQuery, embedding |-> KBVectors[1]],
     [text |-> OneTermQuery, embedding |-> ZeroVector]}

\* Every caller is a queryVectorStore call on the installed index, back from
\* generateEmbeddings with the embedding of its query or with null; the
\* callers pass the same query and the same k.
SearchInit ==
    /\ vectorStoreInstance \in Indexes
    /\ cacheFile = JSONStringify(vectorStoreInstance.entries)
    /\ pipe \in [Callers -> {"pipe", "null"}]
    /\ embeddingPipeline = (\E p \in Callers : pipe[p] = "pipe")
    /\ useKeywordFallback = (\E p \in Callers : pipe[p] = "null")
    /\ acquisitions = Cardinality({pipe[p] : p \in Callers})
    /\ \E q \in Queries :
          /\ texts = [p \in Callers |-> <<q.text>>]
          /\ embs = [p \in Callers |->
                       IF pipe[p] = "pipe" THEN Vecs(<<q.embedding>>) ELSE Vecs(<<>>)]
    /\ pc = [p \in Callers |-> "gen"]
    /\ op = [p \in Callers |-> "query"]
    /\ store = [p \in Callers |-> vectorStoreInstance]
    /\ chunks = [p \in Callers |-> <<>>]
    /\ result = [p \in Callers |-> Pending]
    /\ k \in [Callers -> Ks]
    /\ \A p, q \in Callers : k[p] = k[q]
    /\ log = [p \in Callers |-> <<>>]

\* Variant of QuerySearch: the entries of the store are sorted in place.
QuerySearchSortsInPlace(p) ==
    /\ op[p] = "query"
    /\ Generated(p)
    /\ LET queryEmbedding == generateEmbeddings(p)
           scored == IF SearchPath(queryEmbedding) = "similarity"
                     THEN similarityScored(store[p].entries, queryEmbedding.vecs[1])
                     ELSE keywordScored(store[p].entries, texts[p][1])
       IN /\ result' = [result EXCEPT ![p] =
                          Found(SearchPath(queryEmbedding), store[p].id, scored,
                                IF SearchPath(queryEmbedding) = "similarity"
                                THEN similaritySearch(store[p].entries, queryEmbedding.vecs[1], k[p])
                                ELSE keywordSearch(store[p].entries, texts[p][1], k[p]))]
          /\ vectorStoreInstance' =
                [vectorStoreInstance EXCEPT
                    !.entries = [i \in 1..Len(scored) |-> scored[i].entry]]
    /\ embs' = [embs EXCEPT ![p] = generateEmbeddings(p)]
    /\ pc' = [pc EXCEPT ![p] = "done"]
    /\ UNCHANGED <<embeddingPipeline, useKeywordFallback, cacheFile, op, store, texts,
                   chunks, pipe, log, acquisitions, k>>

\* queryVectorStore after generateEmbeddings: the similarity
\* search with the embedding of the query, or the keyword search with its
\* text.  The query stays in texts.
QuerySearch(p) ==
    /\ op[p] = "query"
    /\ Generated(p)
    /\ LET queryEmbedding == generateEmbeddings(p)
       IN result' = [result EXCEPT ![p] =
                       IF SearchPath(queryEmbedding) = "similarity"
                       THEN Found("similarity", store[p].id,
                                  similarityScored(store[p].entries, queryEmbedding.vecs[1]),
                                  similaritySearch(store[p].entries, queryEmbedding.vecs[1], k[p]))
                       ELSE Found("keyword", store[p].id,
                                  keywordScored(store[p].entries, texts[p][1]),
                                  keywordSearch(store[p].entries, texts[p][1], k[p]))]
    /\ embs' = [embs EXCEPT ![p] = generateEmbeddings(p)]
    /\ pc' = [pc EXCEPT ![p] = "done"]
    /\ UNCHANGED <<shared, op, store, texts, chunks, pipe, log, acquisitions, k>>

SearchNext == \E p \in Callers : QuerySearch(p)

SearchSpec == SearchInit /\ [][SearchNext]_vars

-----------------------------------------------------------------------------
\* Properties

Has(seq, x) == \E i \in 1..Len(seq) : seq[i] = x

\* A getVectorStore cache load has failed in this process.
LoadFailed == \E p \in Callers : result[p] = Err(NotInitialized)

\* A createVectorStore call has returned a store in this process.
BuildSucceeded == \E p \in Callers : result[p].kind = "store"

\* Caller p takes the first step of queryVectorStore.
QueryStarts(p) == pc[p] = "idle" /\ op'[p] = "query"

\* Caller p, running createVectorStore, takes a step.
BuildSteps(p) == op'[p] = "build" /\ <<pc[p], embs[p]>> # <<pc'[p], embs'[p]>>

\* Caller p returns from createVectorStore with a store.
BuildReturns(p) == result[p].kind # "store" /\ result'[p].kind = "store"

\* C1: with no index installed and no loadable cache, queryVectorStore fails
\* with the not-initialized error in its first step, without consulting the
\* embedding provider: no acquisition is started and the provider state
\* (embeddingPipeline, useKeywordFallback) is unchanged.
C1_NotInitializedBeforeProvider ==
    [][\A p \in Callers :
          (QueryStarts(p) /\ vectorStoreInstance.id = 0
                          /\ loadFromCache(cacheFile, p).id = 0)
          => /\ pc'[p] = "done"
             /\ result'[p] = Err(NotInitialized)
             /\ pipe'[p] = "none"
             /\ acquisitions' = acquisitions
             /\ UNCHANGED <<vectorStoreInstance, embeddingPipeline, useKeywordFallback>>]_vars

\* A query has failed with the not-initialized error and the provider was never consulted.
C1_Witness ==
    \E p \in Callers :
        /\ op[p] = "query"
        /\ result[p] = Err(NotInitialized)
        /\ pipe[p] = "none"
        /\ acquisitions = 0

\* C2 as stated: once a cache load has failed, every query fails with the
\* not-indexed error until a createVectorStore succeeds in this process.
C2_StickyUnavailable ==
    (LoadFailed /\ ~BuildSucceeded)
        => \A p \in Callers : op[p] = "query" => result[p] = Err(NotInitialized)

\* C2 amended: after a cache load has failed, a later queryVectorStore call
\* fails with the not-indexed error exactly when, at that call, no index is
\* installed and the cache file is still not loadable; the load is retried on
\* every call, so a cache file written in between is loaded and installed.
C2_RetriesLoad ==
    [][\A p \in Callers :
          (LoadFailed /\ QueryStarts(p))
          => IF vectorStoreInstance.id = 0 /\ loadFromCache(cacheFile, p).id = 0
             THEN /\ result'[p] = Err(NotInitialized)
                  /\ pc'[p] = "done"
                  /\ vectorStoreInstance'.id = 0
             ELSE /\ pc'[p] = "embed"
                  /\ store'[p].id # 0
                  /\ vectorStoreInstance' = store'[p]
                  /\ vectorStoreInstance.id = 0 => store'[p].entries = cacheFile.entries]_vars

\* Two queries have failed one after the other with the not-indexed error.
C2_Witness ==
    \E p, q \in Callers :
        /\ p # q
        /\ op[p] = "query" /\ result[p] = Err(NotInitialized)
        /\ op[q] = "query" /\ result[q] = Err(NotInitialized)

\* C3: a query answered in the Ready state consulted the embedding provider
\* first; it is answered by similaritySearch exactly when the provider
\* returned a vector, and by keywordSearch only when the provider returned
\* null, which happens only in the degraded state.
C3_ProviderFirst ==
    \A p \in Callers :
        (op[p] = "query" /\ result[p].kind = "docs")
        => /\ store[p].id # 0
           /\ result[p].id = store[p].id
           /\ pipe[p] # "none"
           /\ (result[p].what = "similarity") <=> (~embs[p].null /\ pipe[p] = "pipe")
           /\ (result[p].what = "keyword")
                 => (embs[p].null /\ pipe[p] = "null" /\ useKeywordFallback)

\* One query was answered by similaritySearch and another by keywordSearch.
C3_Witness ==
    \E p, q \in Callers :
        /\ op[p] = "query" /\ result[p].kind = "docs" /\ result[p].what = "similarity"
        /\ op[q] = "query" /\ result[q].kind = "docs" /\ result[q].what = "keyword"

\* C4: a query that obtained a store (Ready state) never fails: when the
\* embedding call for the query text throws, the query is still answered,
\* by keywordSearch.
C4_EmbedThrowFallsBack ==
    \A p \in Callers :
        (op[p] = "query" /\ pc[p] = "done" /\ store[p].id # 0)
        => (result[p].kind = "docs"
            /\ (Len(embs[p].vecs) = 0 => result[p].what = "keyword"))

\* C5: once the degraded flag is set it stays set, no further acquisition is
\* started, and every caller that enters getEmbeddingPipeline leaves it at
\* once with null, so that generateEmbeddings returns null.
C5_DegradedForever ==
    [][useKeywordFallback
          => /\ useKeywordFallback'
             /\ acquisitions' = acquisitions
             /\ \A p \in Callers :
                   (pc[p] = "embed" /\ pc'[p] # "embed")
                   => (pc'[p] = "gen" /\ pipe'[p] = "null" /\ generateEmbeddings(p)'.null)]_vars

\* After the one acquisition failed, every caller got null from getEmbeddingPipeline.
C5_Witness ==
    /\ useKeywordFallback
    /\ acquisitions = 1
    /\ \A p \in Callers : pipe[p] = "null"

\* C6: the model acquisition is started at most once per process.
C6_AcquiredOnce == acquisitions <= 1

\* C7: the provider is never both loaded and degraded, and no two callers
\* that went through an acquisition hold different outcomes.
C7_SameOutcome ==
    /\ ~(embeddingPipeline /\ useKeywordFallback)
    /\ acquisitions >= 2 => \A p, q \in Callers : ~(pipe[p] = "pipe" /\ pipe[q] = "null")

\* C8: no step of a createVectorStore call that does not return a store
\* changes the installed index: a build whose embedding step fails leaves
\* vectorStoreInstance the same instance with the same entries, and its own
\* store is never installed.
C8_FailedBuildLeavesIndex ==
    /\ [][\A p \in Callers :
             (BuildSteps(p) /\ result'[p].kind # "store")
             => vectorStoreInstance' = vectorStoreInstance]_vars
    /\ [](\A p \in Callers :
             (op[p] = "build" /\ result[p].kind = "error")
             => (vectorStoreInstance.id # p /\ store[p] = NoStore
                 /\ result[p].what \in {EmbedFailed, PipeThrew}))

\* A build of three texts failed on the second one while the index of an
\* earlier build is installed.
C8_Witness ==
    \E p, q \in Callers :
        /\ op[p] = "build" /\ result[p] = Err(PipeThrew)
        /\ Len(texts[p]) = 3 /\ Len(embs[p].vecs) = 1
        /\ result[q].kind = "store" /\ vectorStoreInstance.id = q
        /\ Len(vectorStoreInstance.entries) = MaxChunks

\* The stages of a build, in order, as far as the build has come.
BuildStages(saved) == <<"chunk", "embed", "index", saved, "install">>

\* C9: a build performs chunking, embedding, index population, cache save
\* and installation in this order; the only writes to the cache file made by
\* this process happen when a build returns, with one embedding per chunk;
\* at its return the installed index is the new store, holding one entry per
\* chunk; and a query started while an index is installed uses that index.
C9_BuildOrder ==
    /\ [](\A p \in Callers :
             op[p] = "build"
             => /\ log[p] \in {<<"chunk">>, BuildStages("save"), BuildStages("savefail")}
                /\ (result[p].kind = "store") <=> (Len(log[p]) > 1))
    /\ [][/\ \A p \in Callers :
               BuildReturns(p)
               => /\ pipe[p] = "pipe"
                  /\ Len(embs[p].vecs) = Len(chunks[p])
                  /\ vectorStoreInstance' = store'[p]
                  /\ store'[p].id = p
                  /\ Len(store'[p].entries) = Len(chunks[p])
                  /\ \A i \in 1..Len(chunks[p]) :
                        /\ store'[p].entries[i].content = chunks[p][i].pageContent
                        /\ store'[p].entries[i].embedding = EmbedOf(chunks[p][i].pageContent)
                  /\ cacheFile' # cacheFile => cacheFile' = JSONStringify(store'[p].entries)
          /\ (cacheFile' # cacheFile /\ ~UNCHANGED inProcess)
                => \E p \in Callers : BuildReturns(p)
          /\ \A q \in Callers :
               (QueryStarts(q) /\ vectorStoreInstance.id # 0)
               => (pc'[q] = "embed" /\ store'[q] = vectorStoreInstance)]_vars

\* A build has returned, its cache is on disk, and a query was answered from its store.
C9_Witness ==
    \E p, q \in Callers :
        /\ result[p].kind = "store"
        /\ log[p] = BuildStages("save")
        /\ vectorStoreInstance.id = p
        /\ Len(vectorStoreInstance.entries) = MaxChunks
        /\ cacheFile = JSONStringify(vectorStoreInstance.entries)
        /\ result[q].kind = "docs" /\ result[q].id = p

\* C10: a build whose cache write failed still returns its store and has
\* installed it, leaving the cache file as it was; the process has an index
\* from then on, and a query started while that index is installed uses it.
C10_SaveFailureNotFatal ==
    /\ [](\A p \in Callers :
             Has(log[p], "savefail")
             => (result[p] = Built(p) /\ store[p].id = p /\ vectorStoreInstance.id # 0))
    /\ [][\A p \in Callers :
             (~Has(log[p], "savefail") /\ Has(log'[p], "savefail"))
             => /\ vectorStoreInstance' = store'[p]
                /\ cacheFile' = cacheFile
                /\ \A q \in Callers \ {p} :
                      pc'[q] = "idle" => getVectorStore(q)' = store'[p]]_vars

\* A query was answered from a store whose cache write failed, with no cache on disk.
C10_Witness ==
    \E p, q \in Callers :
        /\ Has(log[p], "savefail")
        /\ vectorStoreInstance.id = p
        /\ cacheFile.kind # "json"
        /\ op[q] = "query" /\ result[q].kind = "docs" /\ result[q].id = p

\* The embeddings of an entry sequence all have one length.
OneDimension(entries) ==
    \A i, j \in 1..Len(entries) : Len(entries[i].embedding) = Len(entries[j].embedding)

\* C11: with a missing, unreadable or unparsable cache file (or JSON without
\* entries) the load reports null: no index is installed and every query
\* fails, with the not-initialized error and with no other one; and whatever
\* the file, a query that fails before it consults the embedding provider
\* fails with the not-initialized error.
C11_LoadNeverFatal ==
    \A p \in Callers :
        /\ (cacheFile.kind # "json" /\ op[p] = "query")
              => (result[p] = Err(NotInitialized) /\ vectorStoreInstance = NoStore)
        /\ (op[p] = "query" /\ result[p].kind = "error" /\ pipe[p] = "none")
              => result[p] = Err(NotInitialized)

\* Queries have failed on a cache file that is not JSON.
C11_Witness ==
    /\ cacheFile = Garbage
    /\ \A p \in Callers : op[p] = "query" /\ result[p] = Err(NotInitialized)

\* C12: the entries of the installed index all have one embedding
\* dimensionality; a cache file of mixed dimensionalities is not installed.
C12_OneDimensionInstalled ==
    vectorStoreInstance.id # 0 => OneDimension(vectorStoreInstance.entries)

\* C13: when the cache file is the one written for a non-empty index, the
\* store loaded from it has the entries of that index, element by element.
C13_RoundTrip ==
    \A idx \in SavedIndexes :
        (Len(idx) > 0 /\ OneDimension(idx) /\ cacheFile = JSONStringify(idx)
            /\ vectorStoreInstance.id # 0)
        => vectorStoreInstance.entries = idx

\* C14: for every k and every store, a query returns at most k entries on
\* both paths (none when k is not positive), and the similarity path returns
\* every stored entry when the store holds fewer than k entries.
C14_AtMostK ==
    \A p \in Callers :
        result[p].kind = "docs"
        => /\ Len(result[p].docs) <= (IF k[p] > 0 THEN k[p] ELSE 0)
           /\ (result[p].what = "similarity" /\ Len(store[p].entries) < k[p])
                 => /\ Len(result[p].docs) = Len(store[p].entries)
                    /\ \A j \in 1..Len(store[p].entries) :
                          \E i \in 1..Len(result[p].docs) :
                              /\ result[p].docs[i].pageContent = store[p].entries[j].content
                              /\ result[p].docs[i].metadata = store[p].entries[j].metadata

\* C15: for every k <= 0, zero or negative, and every store, the similarity
\* query returns an empty sequence.
C15_NonPositiveKEmpty ==
    \A p \in Callers :
        (result[p].kind = "docs" /\ result[p].what = "similarity" /\ k[p] <= 0)
        => result[p].docs = <<>>

\* C16 as stated: once an index is installed it is never replaced for the
\* rest of the process, whoever calls afterwards.
C16_NeverReplaced ==
    [][vectorStoreInstance.id # 0 => vectorStoreInstance' = vectorStoreInstance]_vars

\* C16 amended: the process holds one shared index; once an index is
\* installed, every later getVectorStore call returns that instance without
\* reloading, and the instance changes only when a createVectorStore call
\* returns, whose new store then becomes the shared instance (the last
\* successful build wins).
C16_LastBuildWins ==
    [][/\ (vectorStoreInstance.id # 0 /\ vectorStoreInstance' # vectorStoreInstance)
            => \E p \in Callers : BuildReturns(p) /\ vectorStoreInstance' = store'[p]
       /\ \A p \in Callers :
            (QueryStarts(p) /\ vectorStoreInstance.id # 0)
            => (store'[p] = vectorStoreInstance /\ vectorStoreInstance' = vectorStoreInstance)
       /\ \A p \in Callers :
            BuildReturns(p) => vectorStoreInstance' = store'[p]]_vars

\* Two createVectorStore calls have returned: the store of the later one has
\* replaced the store the earlier one had installed.
C16_Witness ==
    \E p, q \in Callers :
        /\ p # q
        /\ result[p] = Built(p)
        /\ result[q] = Built(q)
        /\ vectorStoreInstance = store[q]
        /\ vectorStoreInstance # store[p]

\* A query has searched the store on the path `path`.
Searched(p, path) == result[p].kind = "docs" /\ result[p].what = path

\* C17: queries are read-only: with an index installed, no search of a
\* queryVectorStore call, on either path, for any k and however the queries
\* interleave, changes the installed instance, the content or the order of
\* its entries, or the cache file.
C17_QueriesReadOnly ==
    [][\A p \in Callers :
          (op[p] = "query" /\ vectorStoreInstance.id # 0
              /\ result[p] = Pending /\ result'[p].kind = "docs")
          => /\ vectorStoreInstance' = vectorStoreInstance
             /\ cacheFile' = cacheFile
             /\ store'[p] = vectorStoreInstance]_vars

\* A similarity query and a keyword query have both returned documents in
\* another order than the index holds them, and the index and the cache file
\* are as they were.
C17_Witness ==
    \E p, q \in Callers :
        /\ Searched(p, "similarity")
        /\ Searched(q, "keyword")
        /\ Len(result[p].docs) >= 1
        /\ Len(result[q].docs) >= 1
        /\ result[p].docs[1].pageContent # vectorStoreInstance.entries[1].content
        /\ result[q].docs[1].pageContent # vectorStoreInstance.entries[1].content
        /\ vectorStoreInstance \in Indexes
        /\ cacheFile = JSONStringify(vectorStoreInstance.entries)

\* C18: both paths return the same chunk shape and pass the stored data
\* through untouched: every returned item has exactly the fields pageContent
\* and metadata, equal to the content and the metadata of one stored entry,
\* and each entry holds exactly the content and the metadata of the chunk it
\* was built from, beside its embedding.
C18_ChunksUntouched ==
    /\ \A p \in Callers :
          result[p].kind = "docs"
          => \A i \in 1..Len(result[p].docs) :
                /\ DOMAIN result[p].docs[i] = {"pageContent", "metadata"}
                /\ \E j \in 1..Len(store[p].entries) :
                      /\ result[p].docs[i].pageContent = store[p].entries[j].content
                      /\ result[p].docs[i].metadata = store[p].entries[j].metadata
    /\ LET entries == vectorStoreInstance.entries
       IN \E r \in 0..(Len(KBTexts) - 1) :
             \A j \in 1..Len(entries) :
                /\ DOMAIN entries[j] = {"content", "embedding", "metadata"}
                /\ entries[j].content = KBDocuments(Len(entries), r)[j].pageContent
                /\ entries[j].metadata = KBDocuments(Len(entries), r)[j].metadata

\* A similarity query and a keyword query have both returned chunks.
C18_Witness ==
    \E p, q \in Callers :
        /\ Searched(p, "similarity")
        /\ Searched(q, "keyword")
        /\ Len(result[p].docs) >= 2
        /\ Len(result[q].docs) >= 2

\* C19: the keyword score of an entry is the sum, over the lowercase
\* whitespace-separated query terms longer than 2 characters, of the
\* non-overlapping occurrence counts of the term in the lowercased content,
\* plus a bonus of exactly 10, added once whatever the number of terms, when
\* the lowercased content contains the whole lowercased query.
C19_KeywordScore ==
    \A p \in Callers :
        Searched(p, "keyword")
        => \A i \in 1..Len(result[p].scored) :
              LET content == toLowerCase(Chars(result[p].scored[i].entry.content))
                  query == Chars(texts[p][1])
              IN result[p].scored[i].score =
                    TermMatches(content, queryTerms(query))
                    + (IF includes(content, toLowerCase(query)) THEN PhraseBonus ELSE 0)

Similarity(p, j) == cosineSimilarity(embs[p].vecs[1], store[p].entries[j].embedding)

\* Entry i of the store of caller p ranks before entry j: its similarity is
\* higher, or equal with i inserted first.
RanksBefore(p, i, j) ==
    \/ CosineAbove(Similarity(p, i), Similarity(p, j))
    \/ ~CosineAbove(Similarity(p, j), Similarity(p, i)) /\ i < j

\* C21: the similarity query returns the k entries of highest cosine
\* similarity (all of them when the store holds fewer), in non-increasing
\* similarity order, entries of equal similarity in insertion order; a store
\* with the embeddings [1,0], [0,1], [0.7,0.7] queried with [1,0] ranks them
\* [1,0], [0.7,0.7], [0,1].
C21_TopKDescendingStable ==
    \A p \in Callers :
        (/\ Searched(p, "similarity")
         /\ k[p] >= 0
         /\ \A j \in 1..Len(store[p].entries) : ~IsNaN(Similarity(p, j)))
        => LET entries == store[p].entries
               docs == result[p].docs
               at(i) == docs[i].metadata.chunk
           IN /\ Len(docs) = (IF k[p] < Len(entries) THEN k[p] ELSE Len(entries))
              /\ \A i \in 1..Len(docs) :
                    /\ at(i) \in 1..Len(entries)
                    /\ docs[i].pageContent = entries[at(i)].content
                    /\ docs[i].metadata = entries[at(i)].metadata
              /\ \A i, j \in 1..Len(docs) : i < j => RanksBefore(p, at(i), at(j))
              /\ \A i \in 1..Len(docs) :
                    \A j \in 1..Len(entries) :
                        (\A h \in 1..Len(docs) : at(h) # j) => RanksBefore(p, at(i), j)
              /\ (/\ [j \in 1..Len(entries) |-> entries[j].embedding] = KBVectors
                  /\ embs[p].vecs[1] = KBVectors[1]
                  /\ k[p] >= Len(KBVectors))
                    => [i \in 1..Len(docs) |-> at(i)] = <<1, 3, 2>>

\* The store of the embeddings [1,0], [0,1], [0.7,0.7] has been queried with
\* [1,0] and has returned the three entries, [0.7,0.7] before [0,1].
C21_Witness ==
    \E p \in Callers :
        /\ Searched(p, "similarity")
        /\ store[p] = IndexOf(3, 0)
        /\ embs[p].vecs[1] = KBVectors[1]
        /\ Len(result[p].docs) = 3
        /\ result[p].docs[2].pageContent = KBTexts[3]

\* C22: when a stored embedding or the query vector has zero norm, the
\* similarity query does not raise, every entry of undefined similarity ranks
\* after every entry of defined similarity, and the entries of defined
\* similarity are in descending order.
C22_UndefinedRanksLast ==
    \A p \in Callers :
        (op[p] = "query" /\ pc[p] = "done" /\ pipe[p] = "pipe")
        => /\ Searched(p, "similarity")
           /\ \A i, j \in 1..Len(result[p].scored) :
                 i < j =>
                    /\ IsNaN(result[p].scored[i].score) => IsNaN(result[p].scored[j].score)
                    /\ ~CosineAbove(result[p].scored[j].score, result[p].scored[i].score)

\* The store is the complete index of the chunks: one entry per chunk, with
\* the content, the metadata and the embedding of the chunk.
CompleteIndex(entries, docs) ==
    /\ Len(entries) = Len(docs)
    /\ \A i \in 1..Len(docs) :
          /\ entries[i].content = docs[i].pageContent
          /\ entries[i].metadata = docs[i].metadata
          /\ entries[i].embedding = EmbedOf(docs[i].pageContent)

\* C23: a query that overlaps a build in progress never observes a partially
\* populated index: a step of a build leaves the installed index as it was
\* or, when the build returns, installs the complete new index holding one
\* entry per chunk, and the store a query gets is the installed one.
C23_NoPartialIndex ==
    [][/\ \A p \in Callers :
            BuildSteps(p)
            => \/ vectorStoreInstance' = vectorStoreInstance
               \/ /\ BuildReturns(p)
                  /\ vectorStoreInstance' = store'[p]
                  /\ CompleteIndex(vectorStoreInstance'.entries, chunks[p])
       /\ \A q \in Callers :
            (QueryStarts(q) /\ pc'[q] = "embed")
            => /\ store'[q] = vectorStoreInstance'
               /\ \A p \in Callers :
                     (op[p] = "build" /\ pc[p] # "done") => store'[q].id # p]_vars

\* A query is in flight on the installed index while a build has embedded
\* some of its chunks and not yet all.
C23_Witness ==
    \E p, q \in Callers :
        /\ op[p] = "build"
        /\ pc[p] = "gen"
        /\ Len(embs[p].vecs) >= 1
        /\ Len(embs[p].vecs) < Len(chunks[p])
        /\ op[q] = "query"
        /\ pc[q] \in {"embed", "acquiring", "gen"}
        /\ store[q] = vectorStoreInstance
        /\ vectorStoreInstance.id # 0

\* C24: after any sequence of builds in one process, overlapping or not,
\* whenever the last completed build wrote its cache the entries of the cache
\* file equal those of the installed index: a returning build writes the
\* cache record of its store and installs that store in one step, and no
\* other step of the process changes the cache file or an installed index.
C24_CacheEqualsIndex ==
    [][/\ \A p \in Callers :
            BuildReturns(p)
            => /\ vectorStoreInstance' = store'[p]
               /\ Has(log'[p], "save")
                     => cacheFile' = JSONStringify(vectorStoreInstance'.entries)
               /\ ~Has(log'[p], "save") => cacheFile' = cacheFile
       /\ (~UNCHANGED inProcess /\ \A p \in Callers : ~BuildReturns(p))
            => /\ cacheFile' = cacheFile
               /\ vectorStoreInstance.id # 0 => vectorStoreInstance' = vectorStoreInstance]_vars

\* Two builds of different corpora have returned, each having written its
\* cache; the cache file holds the entries of the index installed last.
C24_Witness ==
    \E p, q \in Callers :
        /\ p # q
        /\ result[p] = Built(p) /\ Has(log[p], "save")
        /\ result[q] = Built(q) /\ Has(log[q], "save")
        /\ store[p].entries # store[q].entries
        /\ vectorStoreInstance = store[q]
        /\ cacheFile = JSONStringify(vectorStoreInstance.entries)

\* C25: once the embedding provider is degraded, every createVectorStore
\* call in the process fails with the embeddings error and changes neither
\* the installed index nor the cache file, so that from then on an index is
\* installed only by a cache load.
C25_DegradedBuildsFail ==
    [][useKeywordFallback
          => /\ \A p \in Callers :
                   BuildSteps(p)
                   => /\ result'[p].kind # "store"
                      /\ result'[p].kind = "error" => result'[p] = Err(EmbedFailed)
                      /\ UNCHANGED <<vectorStoreInstance, cacheFile>>
             /\ vectorStoreInstance' # vectorStoreInstance
                   => \E q \in Callers :
                         /\ QueryStarts(q)
                         /\ vectorStoreInstance' = loadFromCache(cacheFile, q)]_vars

\* C26: the cache file is read only while no index is installed: once an
\* index is installed, getVectorStore returns it whatever the cache file
\* holds, and the documents of a query come from the store the query got, so
\* a cache file replaced afterwards is not reflected in the query results.
C26_CacheNotReread ==
    /\ vectorStoreInstance.id # 0
          => \A q \in Callers : getVectorStore(q) = vectorStoreInstance
    /\ \A q \in Callers :
          (op[q] = "query" /\ result[q].kind = "docs")
          => (store[q].id # 0 /\ result[q].id = store[q].id)

\* A query has returned documents of the index another caller installed,
\* while the cache file holds the record the seeding script wrote, which
\* differs from that index.
C26_Witness ==
    \E q \in Callers :
        /\ op[q] = "query"
        /\ result[q].kind = "docs"
        /\ result[q].id = vectorStoreInstance.id
        /\ vectorStoreInstance.id # q
        /\ cacheFile = SeededCache
        /\ cacheFile # JSONStringify(vectorStoreInstance.entries)

====
